---- MODULE Spec2Model ----
(***************************************************************************)
(* The betting / settlement engine of the roulette bot: RouletteGame       *)
(* (roulette.py), the per-round aggregation of PlayersStats (models.py)    *)
(* and the exceptions the engine raises (exceptions.py).                   *)
(*                                                                         *)
(* Python values are encoded as follows.  An optional value (None or x) is *)
(* a sequence of length at most one: None is <<>> and x is <<x>>.  An      *)
(* exception is a record whose field "type" is the class name and whose    *)
(* other fields are the attributes the constructor stores.  A call that    *)
(* can raise returns a record with a field "exc" (NoExc when it returns    *)
(* normally).                                                              *)
(***************************************************************************)
EXTENDS Integers, Sequences, FiniteSets, TLC

VARIABLES
    players_data,   \* RouletteGame.__players_data : player id -> balance
    bets,           \* RouletteGame.bets : the pending bets, oldest first
    saved,          \* the mapping last handed to save_players_data
    bet_ids,        \* history: the acceptance number of each pending bet
    settle_count,   \* history: acceptance number -> times it was settled
    round_start,    \* history: the balances when the current round began
    rounds,         \* history: number of calculate_results calls so far
    last,           \* history: the last call, its argument and its outcome
    tasks           \* the coroutines of bot.py: command handlers and game_loop

vars == <<players_data, bets, saved, bet_ids, settle_count, round_start, rounds, last,
          tasks>>

----------------------------------------------------------------------------
(* Bounds of the model *)

MaxBets == 3        \* bets accepted in one behaviour
MaxRounds == 2      \* calculate_results calls in one behaviour
MaxCalls == 3       \* direct calls of the ledger operations in one behaviour
MaxHandlers == 2    \* command handlers invoked in one behaviour

----------------------------------------------------------------------------
(* Class constants of RouletteGame *)

MINIMAL_BET == 1
STARTING_BALANCE == 100
NUMBER_PRIZE_MULTIPLIER == 36
COLOR_PRIZE_MULTIPLIER == 2
COLORS == {"red", "black"}
RED_NUMBERS == {1, 3, 5, 7, 9, 12, 14, 16, 18, 19, 21, 23, 25, 27, 30, 32, 34, 36}
BLACK_NUMBERS == {2, 4, 6, 8, 10, 11, 13, 15, 17, 20, 22, 24, 26, 28, 29, 31, 33, 35}
GREEN_NUMBERS == {0}

----------------------------------------------------------------------------
(* Python values *)

None == <<>>
Some(x) == <<x>>
IsNone(o) == o = <<>>
Val(o) == o[1]

\* Truthiness of an Optional[int]: None and 0 are falsy.
TruthyInt(o) == ~IsNone(o) /\ Val(o) # 0

\* Truthiness of an Optional[str]: None and "" are falsy.
TruthyStr(o) == ~IsNone(o) /\ Val(o) # ""

\* str.lower() on the strings the model feeds in.
Lower(s) ==
    CASE s = "Red" -> "red"
      [] s = "RED" -> "red"
      [] s = "Black" -> "black"
      [] s = "BLACK" -> "black"
      [] s = "Green" -> "green"
      [] OTHER -> s

NoExc == [type |-> "none"]
WrongNumberError(num) == [type |-> "WrongNumberError", num |-> num]
WrongColorError(color, colors) == [type |-> "WrongColorError", color |-> color, colors |-> colors]
MinimalBetError(minimal_bet) == [type |-> "MinimalBetError", minimal_bet |-> minimal_bet]
InsufficientBalanceError(balance, bet) ==
    [type |-> "InsufficientBalanceError", balance |-> balance, bet |-> bet]
\* None.lower(): 'NoneType' object has no attribute 'lower'
AttributeError == [type |-> "AttributeError"]
\* self.__players_data[player_id] -= amount on a missing key
KeyError(key) == [type |-> "KeyError", key |-> key]

Player(id) == [id |-> id]
Bet(player, color, number, amount) ==
    [player |-> player, color |-> color, number |-> number, amount |-> amount]
PlayerBetResult(player, prize, balance) ==
    [player |-> player, prize |-> prize, balance |-> balance]

----------------------------------------------------------------------------
(* Ledger *)

EmptyData == [p \in {} |-> 0]

\* dict[key] = value
DictSet(d, key, value) ==
    [k \in DOMAIN d \cup {key} |-> IF k = key THEN value ELSE d[k]]

get_player_balance(data, player_id) ==
    IF player_id \in DOMAIN data THEN data[player_id] ELSE 0

\* Faulty variant: the funds check of a registered player always passes.
has_sufficient_funds_unchecked(data, player_id, amount) ==
    player_id \in DOMAIN data \/ (get_player_balance(data, player_id) - amount) >= 0

has_sufficient_funds(data, player_id, amount) ==
    (get_player_balance(data, player_id) - amount) >= 0

\* Faulty variant: the credit replaces the balance instead of adding to it.
add_to_balance_overwrite(data, player_id, amount) ==
    DictSet(data, player_id, amount)

\* Faulty variant: the credit of a registered player is lost.
add_to_balance_drop(data, player_id, amount) ==
    IF player_id \in DOMAIN data THEN data
    ELSE DictSet(data, player_id, amount)

\* Returns the mapping after the call; the caller saves it.
add_to_balance(data, player_id, amount) ==
    DictSet(data, player_id, get_player_balance(data, player_id) + amount)

\* Faulty variant: the debit is not followed by __save_players_data.
subtract_from_balance_no_save(data, player_id, amount) ==
    IF (get_player_balance(data, player_id) - amount) < 0
    THEN [exc |-> InsufficientBalanceError(get_player_balance(data, player_id), amount),
          data |-> data, save |-> FALSE]
    ELSE IF player_id \notin DOMAIN data
    THEN [exc |-> KeyError(player_id), data |-> data, save |-> FALSE]
    ELSE [exc |-> NoExc, data |-> DictSet(data, player_id, data[player_id] - amount),
          save |-> FALSE]

\* Faulty variant: the debit is applied first and the funds are checked after.
subtract_from_balance_debit_first(data, player_id, amount) ==
    IF player_id \notin DOMAIN data
    THEN [exc |-> KeyError(player_id), data |-> data, save |-> FALSE]
    ELSE LET debited == DictSet(data, player_id, data[player_id] - amount)
         IN  IF debited[player_id] < 0
             THEN [exc |-> InsufficientBalanceError(data[player_id], amount),
                   data |-> debited, save |-> FALSE]
             ELSE [exc |-> NoExc, data |-> debited, save |-> TRUE]

\* exc: the exception raised (NoExc if none); data: the mapping after the call;
\* save: whether __save_players_data was reached.
subtract_from_balance(data, player_id, amount) ==
    IF ~has_sufficient_funds(data, player_id, amount)
    THEN [exc |-> InsufficientBalanceError(get_player_balance(data, player_id), amount),
          data |-> data, save |-> FALSE]
    ELSE IF player_id \notin DOMAIN data
    THEN [exc |-> KeyError(player_id), data |-> data, save |-> FALSE]
    ELSE [exc |-> NoExc, data |-> DictSet(data, player_id, data[player_id] - amount),
          save |-> TRUE]

RECURSIVE seed_players_reset(_, _)
\* Faulty variant: every listed id is set to the starting balance, known or not.
seed_players_reset(data, players_ids) ==
    IF players_ids = <<>> THEN data
    ELSE seed_players_reset(DictSet(data, Head(players_ids), STARTING_BALANCE),
                            Tail(players_ids))

RECURSIVE seed_players(_, _)
\* The loop of add_players over the list of ids, in order; an id may be
\* listed more than once.
seed_players(data, players_ids) ==
    IF players_ids = <<>> THEN data
    ELSE LET player_id == Head(players_ids)
             next == IF player_id \notin DOMAIN data
                     THEN DictSet(data, player_id, STARTING_BALANCE)
                     ELSE data
         IN  seed_players(next, Tail(players_ids))

----------------------------------------------------------------------------
(* Wheel and payout table *)

spin_the_wheel == 0..36

\* Faulty variant: a number on no list is taken for green instead of raising.
get_color_default_green(num) ==
    IF num \in RED_NUMBERS THEN [exc |-> NoExc, val |-> "red"]
    ELSE IF num \in BLACK_NUMBERS THEN [exc |-> NoExc, val |-> "black"]
    ELSE [exc |-> NoExc, val |-> "green"]

\* Faulty variant: the color is read off the parity (odd red, even black)
\* instead of the two lists.
get_color_parity(num) ==
    IF num \in GREEN_NUMBERS THEN [exc |-> NoExc, val |-> "green"]
    ELSE IF num \in RED_NUMBERS \cup BLACK_NUMBERS
    THEN [exc |-> NoExc, val |-> IF num % 2 = 1 THEN "red" ELSE "black"]
    ELSE [exc |-> WrongNumberError(num), val |-> ""]

\* exc: WrongNumberError for a number on no list; val: the color otherwise.
get_color(num) ==
    IF num \in RED_NUMBERS THEN [exc |-> NoExc, val |-> "red"]
    ELSE IF num \in BLACK_NUMBERS THEN [exc |-> NoExc, val |-> "black"]
    ELSE IF num \in GREEN_NUMBERS THEN [exc |-> NoExc, val |-> "green"]
    ELSE [exc |-> WrongNumberError(num), val |-> ""]

calculate_number_prize(num, winning_number, amount) ==
    IF num = winning_number THEN amount * NUMBER_PRIZE_MULTIPLIER ELSE 0

\* Faulty variant: the bet's color is compared as written, without lower().
calculate_color_prize_case_sensitive(color, winning_number, amount) ==
    IF ~TruthyStr(color) THEN [exc |-> NoExc, val |-> 0]
    ELSE LET c == get_color(winning_number)
         IN  IF c.exc # NoExc THEN [exc |-> c.exc, val |-> 0]
             ELSE IF Val(color) = c.val
                  THEN [exc |-> NoExc, val |-> amount * COLOR_PRIZE_MULTIPLIER]
                  ELSE [exc |-> NoExc, val |-> 0]

\* color is Optional[str]; "color and ..." short-circuits before get_color.
calculate_color_prize(color, winning_number, amount) ==
    IF ~TruthyStr(color) THEN [exc |-> NoExc, val |-> 0]
    ELSE LET c == get_color(winning_number)
         IN  IF c.exc # NoExc THEN [exc |-> c.exc, val |-> 0]
             ELSE IF Lower(Val(color)) = c.val
                  THEN [exc |-> NoExc, val |-> amount * COLOR_PRIZE_MULTIPLIER]
                  ELSE [exc |-> NoExc, val |-> 0]

\* "if bet.number:" is a truthiness test.
calculate_prize(bet, winning_number) ==
    IF TruthyInt(bet.number)
    THEN [exc |-> NoExc,
          val |-> calculate_number_prize(Val(bet.number), winning_number, bet.amount)]
    ELSE calculate_color_prize(bet.color, winning_number, bet.amount)

----------------------------------------------------------------------------
(* PlayersStats *)

\* Faulty variant: a later result of the same player replaces the prize
\* instead of adding to it.
add_result_overwrite(stats, player_bet_result) ==
    IF \E i \in 1..Len(stats) : stats[i].player.id = player_bet_result.player.id
    THEN [i \in 1..Len(stats) |->
            IF stats[i].player.id = player_bet_result.player.id
            THEN [stats[i] EXCEPT !.prize = player_bet_result.prize,
                                  !.balance = player_bet_result.balance]
            ELSE stats[i]]
    ELSE Append(stats, player_bet_result)

\* The insertion-ordered dict of PlayersStats as the sequence of its values.
\* A stored PlayerBetResult is always truthy, so the first branch is taken
\* exactly when the player id is already a key.
add_result(stats, player_bet_result) ==
    IF \E i \in 1..Len(stats) : stats[i].player.id = player_bet_result.player.id
    THEN [i \in 1..Len(stats) |->
            IF stats[i].player.id = player_bet_result.player.id
            THEN [stats[i] EXCEPT !.prize = @ + player_bet_result.prize,
                                  !.balance = player_bet_result.balance]
            ELSE stats[i]]
    ELSE Append(stats, player_bet_result)

get_results(stats) == stats

----------------------------------------------------------------------------
(* place_bet *)

\* Line 170: color = self.get_color(bet.number) if bet.number else bet.color
\* val is Optional[str].
bet_color(bet) ==
    IF TruthyInt(bet.number)
    THEN LET c == get_color(Val(bet.number))
         IN  IF c.exc # NoExc THEN [exc |-> c.exc, val |-> None]
             ELSE [exc |-> NoExc, val |-> Some(c.val)]
    ELSE [exc |-> NoExc, val |-> bet.color]

\* Faulty variant: the amount is not checked.
validate_bet_any_amount(bet) ==
    LET color == bet_color(bet)
    IN  IF color.exc # NoExc THEN color.exc
        ELSE IF IsNone(color.val) THEN AttributeError
        ELSE IF Lower(Val(color.val)) \notin COLORS
             THEN WrongColorError(Val(color.val), COLORS)
        ELSE NoExc

\* Lines 172-175: the two checks that precede the debit.
validate_bet(bet) ==
    LET color == bet_color(bet)
    IN  IF color.exc # NoExc THEN color.exc
        ELSE IF IsNone(color.val) THEN AttributeError
        ELSE IF Lower(Val(color.val)) \notin COLORS
             THEN WrongColorError(Val(color.val), COLORS)
        ELSE IF bet.amount <= 0 THEN MinimalBetError(MINIMAL_BET)
        ELSE NoExc

\* The whole call on (data, pending): the exception, the mapping and the
\* pending list after it, and whether the mapping was saved.
place_bet_call(data, pending, bet) ==
    LET invalid == validate_bet(bet)
    IN  IF invalid # NoExc
        THEN [exc |-> invalid, data |-> data, bets |-> pending, save |-> FALSE]
        ELSE LET debit == subtract_from_balance(data, bet.player.id, bet.amount)
             IN  IF debit.exc # NoExc
                 THEN [exc |-> debit.exc, data |-> debit.data, bets |-> pending,
                       save |-> debit.save]
                 ELSE [exc |-> NoExc, data |-> debit.data,
                       bets |-> Append(pending, bet), save |-> debit.save]

----------------------------------------------------------------------------
(* calculate_results *)

\* list.pop(): the last element is removed.
Pop(pending) == SubSeq(pending, 1, Len(pending) - 1)

RECURSIVE settle_loop(_, _, _, _, _)
\* The while loop of calculate_results.  order lists the positions of the
\* pending list in the order they were settled.
settle_loop(data, pending, stats, order, winning_number) ==
    IF pending = <<>>
    THEN [exc |-> NoExc, data |-> data, bets |-> pending, stats |-> stats, order |-> order]
    ELSE LET bet == pending[Len(pending)]
             rest == Pop(pending)
             prize == calculate_prize(bet, winning_number)
         IN  IF prize.exc # NoExc
             THEN [exc |-> prize.exc, data |-> data, bets |-> rest, stats |-> stats,
                   order |-> order]
             ELSE LET credited == add_to_balance(data, bet.player.id, prize.val)
                      balance == get_player_balance(credited, bet.player.id)
                  IN  settle_loop(credited, rest,
                                  add_result(stats, PlayerBetResult(bet.player, prize.val, balance)),
                                  Append(order, Len(pending)), winning_number)

\* Faulty variant: the loop iterates over the pending list without popping,
\* so the list is still full when the call returns.
calculate_results_keep(data, pending, winning_number) ==
    [settle_loop(data, pending, <<>>, <<>>, winning_number) EXCEPT !.bets = pending]

\* Faulty variant: the oldest pending bet is dropped without being settled.
calculate_results_drop_oldest(data, pending, winning_number) ==
    IF pending = <<>> THEN settle_loop(data, pending, <<>>, <<>>, winning_number)
    ELSE LET r == settle_loop(data, Tail(pending), <<>>, <<>>, winning_number)
         IN  [r EXCEPT !.order = [i \in 1..Len(r.order) |-> r.order[i] + 1]]

calculate_results_call(data, pending, winning_number) ==
    settle_loop(data, pending, <<>>, <<>>, winning_number)

----------------------------------------------------------------------------
(* Inputs *)

PlayerIds == {"p1", "p2"}
BetColors == {"Red", "green"}
BetNumbers == {0, 17, 37}
BetAmounts == {0, 10}
Outcomes == {0, 1, 5, 17}

\* What load_players_data can return: no file, or an earlier run's balances.
LoadedData == {EmptyData, [p \in {"p1"} |-> 5]}

ColorBets == {Bet(Player(p), Some(c), None, a) : p \in PlayerIds, c \in BetColors, a \in BetAmounts}
NumberBets == {Bet(Player(p), None, Some(n), a) : p \in PlayerIds, n \in BetNumbers, a \in BetAmounts}
BetInputs == ColorBets \cup NumberBets

\* The lists add_players is called with: nobody, one member, all members, and
\* a list naming a member twice.
AddPlayersInputs == {<<>>, <<"p1">>, <<"p2">>, <<"p1", "p2">>, <<"p1", "p1">>}

----------------------------------------------------------------------------
(* The engine as a state machine *)

NoResult == <<>>

\* No coroutine of bot.py is modelled: the engine is called directly.
NoTasks == <<>>

Init ==
    /\ players_data \in LoadedData
    /\ bets = <<>>
    /\ saved = players_data
    /\ bet_ids = <<>>
    /\ settle_count = <<>>
    /\ round_start = players_data
    /\ rounds = 0
    /\ tasks = NoTasks
    /\ last = [op |-> "init", arg |-> None, exc |-> NoExc, result |-> NoResult,
               saves |-> 0, spins |-> 0]

\* on_ready / on_member_join -> RouletteGame.add_players
add_players(players_ids) ==
    /\ players_data' = seed_players(players_data, players_ids)
    /\ saved' = players_data'
    /\ round_start' = [p \in DOMAIN players_data' |->
                         IF p \in DOMAIN round_start THEN round_start[p]
                         ELSE players_data'[p]]
    /\ last' = [op |-> "add_players", arg |-> players_ids, exc |-> NoExc,
                result |-> NoResult, saves |-> 1, spins |-> 0]
    /\ UNCHANGED <<bets, bet_ids, settle_count, rounds, tasks>>

\* bet_number_command / bet_color_command -> RouletteGame.place_bet
place_bet(bet) ==
    LET r == place_bet_call(players_data, bets, bet)
        accepted == Len(r.bets) > Len(bets)
    IN  /\ accepted => Len(settle_count) < MaxBets
        /\ players_data' = r.data
        /\ bets' = r.bets
        /\ saved' = IF r.save THEN r.data ELSE saved
        /\ bet_ids' = IF accepted THEN Append(bet_ids, Len(settle_count) + 1) ELSE bet_ids
        /\ settle_count' = IF accepted THEN Append(settle_count, 0) ELSE settle_count
        /\ last' = [op |-> "place_bet", arg |-> bet, exc |-> r.exc, result |-> NoResult,
                    saves |-> IF r.save THEN 1 ELSE 0, spins |-> 0]
        /\ UNCHANGED <<round_start, rounds, tasks>>

\* One turn of game_loop: spin_the_wheel, then calculate_results.
calculate_results(winning_number) ==
    LET r == calculate_results_call(players_data, bets, winning_number)
        settled_ids == {bet_ids[r.order[i]] : i \in 1..Len(r.order)}
    IN  /\ rounds < MaxRounds
        /\ players_data' = r.data
        /\ bets' = r.bets
        /\ saved' = IF Len(r.order) > 0 THEN r.data ELSE saved
        /\ bet_ids' = SubSeq(bet_ids, 1, Len(r.bets))
        /\ settle_count' = [i \in 1..Len(settle_count) |->
                              settle_count[i] + Cardinality({j \in 1..Len(r.order) : bet_ids[r.order[j]] = i})]
        /\ round_start' = r.data
        /\ rounds' = rounds + 1
        /\ last' = [op |-> "calculate_results", arg |-> winning_number, exc |-> r.exc,
                    result |-> get_results(r.stats), saves |-> Len(r.order), spins |-> 1,
                    settled |-> bets, start |-> round_start]
        /\ UNCHANGED tasks

Next ==
    \/ \E players_ids \in AddPlayersInputs : add_players(players_ids)
    \/ \E bet \in BetInputs : place_bet(bet)
    \/ \E winning_number \in Outcomes : calculate_results(winning_number)

Spec == Init /\ [][Next]_vars

----------------------------------------------------------------------------
(* The payout table on its own: calculate_prize applied to any bet *)

PrizeColors == {"red", "Red", "RED", "black", "Black", "BLACK", "green"}
PrizeAmounts == {1, 10}
PrizeBets ==
    {Bet(Player("p1"), Some(c), None, a) : c \in PrizeColors, a \in PrizeAmounts}
    \cup {Bet(Player("p1"), None, Some(n), a) : n \in 0..36, a \in PrizeAmounts}

\* The inputs are drawn here; the one action applies calculate_prize to them.
PrizeInit ==
    /\ players_data = EmptyData
    /\ bets = <<>>
    /\ saved = players_data
    /\ bet_ids = <<>>
    /\ settle_count = <<>>
    /\ round_start = players_data
    /\ rounds = 0
    /\ tasks = NoTasks
    /\ \E bet \in PrizeBets, winning_number \in spin_the_wheel :
          last = [op |-> "input", arg |-> bet, winning_number |-> winning_number,
                  exc |-> NoExc, result |-> 0, saves |-> 0, spins |-> 0]

apply_calculate_prize ==
    LET r == calculate_prize(last.arg, last.winning_number)
    IN  /\ last.op = "input"
        /\ last' = [last EXCEPT !.op = "calculate_prize", !.exc = r.exc, !.result = r.val]
        /\ UNCHANGED <<players_data, bets, saved, bet_ids, settle_count, round_start, rounds, tasks>>

PrizeNext == apply_calculate_prize

SpecPrize == PrizeInit /\ [][PrizeNext]_vars

----------------------------------------------------------------------------
(* What the properties are stated with: the payout rules and the sums of a
   round, written down independently of the operators above *)

RedWritings == {"red", "Red", "RED"}
BlackWritings == {"black", "Black", "BLACK"}

\* The layout of the wheel: in 1..10 and 19..28 the odd numbers are red, in
\* 11..18 and 29..36 the even ones; 0 is green.
WheelRed(w) ==
    \/ (w \in 1..10 \cup 19..28) /\ w % 2 = 1
    \/ (w \in 11..18 \cup 29..36) /\ w % 2 = 0
WheelBlack(w) == w \in 1..36 /\ ~WheelRed(w)

IsNumberBet(bet) == bet.number # None
IsColorBet(bet) == bet.number = None /\ bet.color # None

\* 36 x the stake on the exact number, 2 x the stake on the right color.
ExpectedPrize(bet, w) ==
    IF IsNumberBet(bet)
    THEN IF bet.number = Some(w) THEN 36 * bet.amount ELSE 0
    ELSE IF \/ Val(bet.color) \in RedWritings /\ WheelRed(w)
            \/ Val(bet.color) \in BlackWritings /\ WheelBlack(w)
         THEN 2 * bet.amount ELSE 0

RECURSIVE StakeSum(_, _)
StakeSum(p, pending) ==
    IF pending = <<>> THEN 0
    ELSE (IF Head(pending).player.id = p THEN Head(pending).amount ELSE 0)
         + StakeSum(p, Tail(pending))

RECURSIVE PrizeSum(_, _, _)
PrizeSum(p, pending, w) ==
    IF pending = <<>> THEN 0
    ELSE (IF Head(pending).player.id = p THEN ExpectedPrize(Head(pending), w) ELSE 0)
         + PrizeSum(p, Tail(pending), w)

BalanceIn(data, p) == IF p \in DOMAIN data THEN data[p] ELSE 0

Range(seq) == {seq[i] : i \in 1..Len(seq)}

----------------------------------------------------------------------------
(* Properties of the engine *)

\* C1: in every reachable state every balance is >= 0, and the balance is
\* exactly the balance of the start of the round minus the stakes of the
\* player's pending bets: a bet that cannot be paid is rejected, no debit is
\* cut short to keep the balance at 0.
C1_BalancesNeverNegative ==
    /\ \A p \in DOMAIN players_data : players_data[p] >= 0
    /\ \A p \in PlayerIds :
          BalanceIn(players_data, p) = BalanceIn(round_start, p) - StakeSum(p, bets)
    /\ (last.op = "place_bet" /\ last.exc.type = "InsufficientBalanceError")
          => /\ last.exc.balance = BalanceIn(players_data, last.arg.player.id)
             /\ last.exc.balance < last.arg.amount

\* A registered player with a pending bet is refused a bet the balance no
\* longer covers.
C1_Witness ==
    /\ last.op = "place_bet"
    /\ last.exc.type = "InsufficientBalanceError"
    /\ last.arg.player.id \in DOMAIN players_data
    /\ last.exc.balance > 0
    /\ bets # <<>>

\* C2: after calculate_results with winning number w every player's balance
\* is the balance at the start of the round minus the stakes of the player's
\* accepted bets plus the prizes of those bets; a player without a bet keeps
\* the balance.  The three instances of the claim are spelled out.
C2_RoundAccounting ==
    last.op = "calculate_results" =>
        /\ \A p \in PlayerIds :
              BalanceIn(players_data, p) =
                  BalanceIn(last.start, p) - StakeSum(p, last.settled)
                  + PrizeSum(p, last.settled, last.arg)
        /\ \A p \in PlayerIds :
              StakeSum(p, last.settled) = 0
                  => BalanceIn(players_data, p) = BalanceIn(last.start, p)
        /\ (/\ last.settled = <<Bet(Player("p1"), None, Some(17), 10)>>
            /\ BalanceIn(last.start, "p1") = 100)
              => /\ last.arg = 17 => /\ last.result = <<PlayerBetResult(Player("p1"), 360, 450)>>
                                     /\ players_data["p1"] = 450
                 /\ last.arg = 5 => /\ last.result = <<PlayerBetResult(Player("p1"), 0, 90)>>
                                    /\ players_data["p1"] = 90
        /\ (/\ last.settled = <<Bet(Player("p1"), Some("Red"), None, 10),
                                Bet(Player("p2"), Some("Red"), None, 10)>>
            /\ BalanceIn(last.start, "p1") = 100
            /\ BalanceIn(last.start, "p2") = 100
            /\ last.arg = 1)
              => /\ players_data["p1"] = 110 /\ players_data["p2"] = 110
                 /\ Range(last.result) = {PlayerBetResult(Player("p1"), 20, 110),
                                          PlayerBetResult(Player("p2"), 20, 110)}

\* Two players at 100 each stake 10 on red and 1 comes up.
C2_Witness ==
    /\ last.op = "calculate_results"
    /\ last.arg = 1
    /\ last.settled = <<Bet(Player("p1"), Some("Red"), None, 10),
                        Bet(Player("p2"), Some("Red"), None, 10)>>
    /\ players_data["p1"] = 110
    /\ players_data["p2"] = 110

\* C3: every accepted bet is settled exactly once, by the first
\* calculate_results after its acceptance and against that call's winning
\* number: a pending bet has not been settled, a bet no longer pending has
\* been settled once, and when calculate_results returns nothing is pending,
\* each bet of the round has been settled and the prizes handed out are
\* those of the round's bets for the one winning number.
C3_SettledExactlyOnce ==
    /\ Len(bet_ids) = Len(bets)
    /\ \A i \in 1..Len(settle_count) :
          settle_count[i] = IF i \in Range(bet_ids) THEN 0 ELSE 1
    /\ last.op = "calculate_results" =>
          /\ bets = <<>>
          /\ last.saves = Len(last.settled)
          /\ \A p \in PlayerIds :
                PrizeSum(p, last.settled, last.arg) =
                    BalanceIn(players_data, p) - BalanceIn(last.start, p)
                    + StakeSum(p, last.settled)

\* A second round settles its own bet after the first round settled another.
C3_Witness ==
    /\ last.op = "calculate_results"
    /\ rounds = 2
    /\ Len(last.settled) >= 1
    /\ Len(settle_count) > Len(last.settled)
    /\ \E i \in 1..Len(last.result) : last.result[i].prize > 0

\* C4: the list calculate_results returns holds exactly one result per
\* player with a pending bet in the round and none for anybody else; its
\* prize is the sum of the prizes of that player's bets and its balance is
\* the player's balance once the whole settlement is done.
C4_OneResultPerPlayer ==
    last.op = "calculate_results" =>
        LET results == last.result
        IN  /\ \A i, j \in 1..Len(results) :
                  results[i].player.id = results[j].player.id => i = j
            /\ {results[i].player.id : i \in 1..Len(results)}
                  = {last.settled[k].player.id : k \in 1..Len(last.settled)}
            /\ \A i \in 1..Len(results) :
                  /\ results[i].prize = PrizeSum(results[i].player.id, last.settled, last.arg)
                  /\ results[i].balance = BalanceIn(players_data, results[i].player.id)

\* One player has two bets in the round, one of them winning, and another
\* player has a bet too.
C4_Witness ==
    /\ last.op = "calculate_results"
    /\ Len(last.settled) = 3
    /\ Len(last.result) = 2
    /\ \E i \in 1..Len(last.result) :
          /\ StakeSum(last.result[i].player.id, last.settled) = 20
          /\ last.result[i].prize > 0

\* C5: a place_bet that fails validation (invalid color, invalid number,
\* stake below the minimum, insufficient funds) changes nothing: the
\* balances, the pending list and the saved mapping are as before, and the
\* call neither saves nor spins.
C5_FailedBetChangesNothing ==
    [][ (/\ last'.op = "place_bet"
         /\ last'.exc.type \in {"WrongColorError", "WrongNumberError",
                                "MinimalBetError", "InsufficientBalanceError"})
        => /\ players_data' = players_data
           /\ bets' = bets
           /\ saved' = saved
           /\ last'.saves = 0
           /\ last'.spins = 0 ]_vars

\* A bet is refused for lack of funds while another player's bet is pending.
C5_Witness ==
    /\ last.op = "place_bet"
    /\ last.exc.type = "InsufficientBalanceError"
    /\ last.arg.player.id \in DOMAIN players_data
    /\ \E i \in 1..Len(bets) : bets[i].player.id # last.arg.player.id

\* A target the engine is meant to accept: red or black in any letter case,
\* or a number of the wheel, 0 included.
LegalTarget(bet) ==
    \/ IsColorBet(bet) /\ Val(bet.color) \in RedWritings \cup BlackWritings
    \/ IsNumberBet(bet) /\ Val(bet.number) \in 0..36

\* C6: a bet with a legal target, an amount >= 1 and an owner whose balance
\* covers it is accepted: exactly the stake is debited from the owner, exactly
\* that bet is appended to the pending list, nothing is spun, and the other
\* balances and the bets already pending stay as they are.
C6_LegalBetAccepted ==
    [][ (/\ last'.op = "place_bet"
         /\ LegalTarget(last'.arg)
         /\ last'.arg.amount >= 1
         /\ BalanceIn(players_data, last'.arg.player.id) >= last'.arg.amount)
        => /\ last'.exc = NoExc
           /\ players_data' = [players_data EXCEPT
                                 ![last'.arg.player.id] = @ - last'.arg.amount]
           /\ bets' = Append(bets, last'.arg)
           /\ last'.spins = 0 ]_vars

\* C7: on a number bet on n with stake s, calculate_prize returns 36 * s when
\* n is the winning number and 0 otherwise, for every n and every winning
\* number in 0..36, n = 0 included.
C7_NumberPrize ==
    (last.op = "calculate_prize" /\ IsNumberBet(last.arg))
        => /\ last.exc = NoExc
           /\ last.result = IF Val(last.arg.number) = last.winning_number
                            THEN 36 * last.arg.amount ELSE 0

\* C8: on a color bet on red or black, in any letter case, with stake s,
\* calculate_prize returns 2 * s when the color is that of the winning number
\* and 0 otherwise; no color bet wins on 0.
C8_ColorPrize ==
    (/\ last.op = "calculate_prize"
     /\ IsColorBet(last.arg)
     /\ Val(last.arg.color) \in RedWritings \cup BlackWritings)
        => /\ last.exc = NoExc
           /\ last.result =
                 IF \/ Val(last.arg.color) \in RedWritings /\ WheelRed(last.winning_number)
                    \/ Val(last.arg.color) \in BlackWritings /\ WheelBlack(last.winning_number)
                 THEN 2 * last.arg.amount ELSE 0
           /\ last.winning_number = 0 => last.result = 0

\* "Red" against a red winning number pays twice the stake.
C8_Witness ==
    /\ last.op = "calculate_prize"
    /\ last.arg.color = Some("Red")
    /\ last.arg.amount = 10
    /\ last.winning_number = 1
    /\ last.result = 20

\* C9: a bet with an invalid target is refused with the matching error and
\* the balances stay as they are: a color that is not red or black in any
\* letter case raises WrongColorError with that color and the legal colors, a
\* number outside 0..36 raises WrongNumberError with that number.
C9_InvalidTargetRefused ==
    [][ last'.op = "place_bet" =>
          /\ (IsColorBet(last'.arg)
              /\ Val(last'.arg.color) \notin RedWritings \cup BlackWritings)
                => /\ last'.exc = [type |-> "WrongColorError",
                                   color |-> Val(last'.arg.color),
                                   colors |-> {"red", "black"}]
                   /\ players_data' = players_data
          /\ (IsNumberBet(last'.arg) /\ Val(last'.arg.number) \notin 0..36)
                => /\ last'.exc = [type |-> "WrongNumberError",
                                   num |-> Val(last'.arg.number)]
                   /\ players_data' = players_data ]_vars

\* A player with money stakes 10 on 37 and is refused.
C9_Witness ==
    /\ last.op = "place_bet"
    /\ last.exc.type = "WrongNumberError"
    /\ last.arg.amount = 10
    /\ BalanceIn(players_data, last.arg.player.id) >= 10

\* C10: a bet with a legal target (0 included) and an amount <= 0 is refused
\* with MinimalBetError carrying the minimum 1, whatever the balance, and
\* the balances stay as they are.
C10_BelowMinimumRefused ==
    [][ (/\ last'.op = "place_bet"
         /\ LegalTarget(last'.arg)
         /\ last'.arg.amount <= 0)
        => /\ last'.exc = [type |-> "MinimalBetError", minimal_bet |-> 1]
           /\ players_data' = players_data ]_vars

\* C11: a bet with a legal target and an amount >= 1 that exceeds the
\* owner's balance (0 for an owner the ledger does not know) is refused with
\* InsufficientBalanceError carrying that balance and the amount, and the
\* balances stay as they are; with balance 5 and amount 10 the error is
\* InsufficientBalanceError(5, 10) and the balance stays 5.
C11_InsufficientFundsRefused ==
    [][ (/\ last'.op = "place_bet"
         /\ LegalTarget(last'.arg)
         /\ last'.arg.amount >= 1
         /\ last'.arg.amount > BalanceIn(players_data, last'.arg.player.id))
        => /\ last'.exc = [type |-> "InsufficientBalanceError",
                           balance |-> BalanceIn(players_data, last'.arg.player.id),
                           bet |-> last'.arg.amount]
           /\ players_data' = players_data
           /\ (BalanceIn(players_data, last'.arg.player.id) = 5 /\ last'.arg.amount = 10)
                 => /\ last'.exc.balance = 5 /\ last'.exc.bet = 10
                    /\ BalanceIn(players_data', last'.arg.player.id) = 5 ]_vars

\* C12: place_bet reports the first failure in the order target, minimum
\* stake, funds: an invalid target raises the target error whatever the
\* amount and the balance, a legal target with an amount <= 0 raises
\* MinimalBetError whatever the balance, and only a legal target with an
\* amount >= 1 raises InsufficientBalanceError.
C12_ValidationOrder ==
    [][ last'.op = "place_bet" =>
          /\ (IsColorBet(last'.arg)
              /\ Val(last'.arg.color) \notin RedWritings \cup BlackWritings)
                => last'.exc.type = "WrongColorError"
          /\ (IsNumberBet(last'.arg) /\ Val(last'.arg.number) \notin 0..36)
                => last'.exc.type = "WrongNumberError"
          /\ (LegalTarget(last'.arg) /\ last'.arg.amount <= 0)
                => last'.exc.type = "MinimalBetError"
          /\ last'.exc.type = "InsufficientBalanceError"
                => /\ LegalTarget(last'.arg)
                   /\ last'.arg.amount >= 1
                   /\ last'.arg.amount > BalanceIn(players_data, last'.arg.player.id) ]_vars

\* C15: after every completed call the mapping last handed to
\* save_players_data is the whole in-memory mapping: add_players saves once,
\* an accepted place_bet saves once, and calculate_results saves after each
\* of its credits.
C15_SavedAfterEveryMutation ==
    /\ saved = players_data
    /\ last.op = "add_players" => last.saves = 1
    /\ (last.op = "place_bet" /\ last.exc = NoExc) => last.saves = 1
    /\ last.op = "calculate_results" => last.saves = Len(last.settled)

\* A round with two bets has been settled and a prize credited.
C15_Witness ==
    /\ last.op = "calculate_results"
    /\ last.saves = 2
    /\ \E i \in 1..Len(last.result) : last.result[i].prize > 0
    /\ saved = players_data
    /\ saved # last.start

\* C18: add_players seeds the ids the ledger does not know at 100 and leaves
\* every known id as it is, also when an id is listed twice; called with ids
\* that are all known, at any point of a behaviour, it changes no balance.
C18_AddPlayersIdempotent ==
    [][ last'.op = "add_players" =>
          /\ DOMAIN players_data' = DOMAIN players_data \cup Range(last'.arg)
          /\ \A p \in DOMAIN players_data' :
                players_data'[p] = IF p \in DOMAIN players_data THEN players_data[p] ELSE 100
          /\ Range(last'.arg) \subseteq DOMAIN players_data => players_data' = players_data
          /\ bets' = bets ]_vars

\* add_players names a player again whose balance a settled round has raised.
C18_Witness ==
    /\ last.op = "add_players"
    /\ "p1" \in Range(last.arg)
    /\ rounds >= 1
    /\ players_data["p1"] > 100

----------------------------------------------------------------------------
(* The color table on its own: get_color applied to any integer *)

\* The wheel's numbers and integers on both sides of them.
ColorNumbers == -12..48

\* The number is drawn here; the one action applies get_color to it.
ColorInit ==
    /\ players_data = EmptyData
    /\ bets = <<>>
    /\ saved = players_data
    /\ bet_ids = <<>>
    /\ settle_count = <<>>
    /\ round_start = players_data
    /\ rounds = 0
    /\ tasks = NoTasks
    /\ \E num \in ColorNumbers :
          last = [op |-> "input", arg |-> num, exc |-> NoExc, result |-> "",
                  saves |-> 0, spins |-> 0]

apply_get_color ==
    LET r == get_color(last.arg)
    IN  /\ last.op = "input"
        /\ last' = [last EXCEPT !.op = "get_color", !.exc = r.exc, !.result = r.val]
        /\ UNCHANGED <<players_data, bets, saved, bet_ids, settle_count, round_start, rounds, tasks>>

ColorNext == apply_get_color

SpecColor == ColorInit /\ [][ColorNext]_vars

\* C20: get_color returns exactly one of red, black, green for each of 0..36,
\* following the layout of the wheel; the three lists are pairwise disjoint and
\* cover 0..36, with 18 red numbers, 18 black numbers and 0 alone green; for a
\* number outside 0..36 it raises WrongNumberError and returns nothing.
C20_ColorPartition ==
    /\ RED_NUMBERS \cap BLACK_NUMBERS = {}
    /\ RED_NUMBERS \cap GREEN_NUMBERS = {}
    /\ BLACK_NUMBERS \cap GREEN_NUMBERS = {}
    /\ RED_NUMBERS \cup BLACK_NUMBERS \cup GREEN_NUMBERS = 0..36
    /\ Cardinality(RED_NUMBERS) = 18
    /\ Cardinality(BLACK_NUMBERS) = 18
    /\ GREEN_NUMBERS = {0}
    /\ last.op = "get_color" =>
          IF last.arg \in 0..36
          THEN /\ last.exc = NoExc
               /\ last.result \in {"red", "black", "green"}
               /\ last.result = "red" <=> WheelRed(last.arg)
               /\ last.result = "black" <=> WheelBlack(last.arg)
               /\ last.result = "green" <=> last.arg = 0
          ELSE /\ last.exc = WrongNumberError(last.arg)
               /\ last.result = ""

\* get_color has answered green for 0.
C20_Witness ==
    /\ last.op = "get_color"
    /\ last.arg = 0
    /\ last.exc = NoExc
    /\ last.result = "green"

----------------------------------------------------------------------------
(* The ledger on its own: add_players, add_to_balance and
   subtract_from_balance called directly, in any order *)

LedgerAddPlayersInputs == {<<"p1">>, <<"p1", "p2">>}
LedgerAmounts == {0, 10, 100}

\* No call yet.
NoCall == [op |-> "none", arg |-> None, before |-> EmptyData]

\* The record of a call: n counts the calls, before is the mapping the call
\* started from, prev is the call before it.
LedgerCall(op, arg, exc, saves) ==
    [op |-> op, arg |-> arg, exc |-> exc, result |-> NoResult, saves |-> saves,
     spins |-> 0, n |-> last.n + 1, before |-> players_data,
     prev |-> [op |-> last.op, arg |-> last.arg, before |-> last.before]]

LedgerInit ==
    /\ players_data \in LoadedData
    /\ bets = <<>>
    /\ saved = players_data
    /\ bet_ids = <<>>
    /\ settle_count = <<>>
    /\ round_start = players_data
    /\ rounds = 0
    /\ tasks = NoTasks
    /\ last = [op |-> "init", arg |-> None, exc |-> NoExc, result |-> NoResult,
               saves |-> 0, spins |-> 0, n |-> 0, before |-> players_data,
               prev |-> NoCall]

call_add_players(players_ids) ==
    /\ last.n < MaxCalls
    /\ players_data' = seed_players(players_data, players_ids)
    /\ saved' = players_data'
    /\ last' = LedgerCall("add_players", players_ids, NoExc, 1)
    /\ UNCHANGED <<bets, bet_ids, settle_count, round_start, rounds, tasks>>

call_add_to_balance(player_id, amount) ==
    /\ last.n < MaxCalls
    /\ players_data' = add_to_balance(players_data, player_id, amount)
    /\ saved' = players_data'
    /\ last' = LedgerCall("add_to_balance", <<player_id, amount>>, NoExc, 1)
    /\ UNCHANGED <<bets, bet_ids, settle_count, round_start, rounds, tasks>>

call_subtract_from_balance(player_id, amount) ==
    LET r == subtract_from_balance(players_data, player_id, amount)
    IN  /\ last.n < MaxCalls
        /\ players_data' = r.data
        /\ saved' = IF r.save THEN r.data ELSE saved
        /\ last' = LedgerCall("subtract_from_balance", <<player_id, amount>>, r.exc,
                              IF r.save THEN 1 ELSE 0)
        /\ UNCHANGED <<bets, bet_ids, settle_count, round_start, rounds, tasks>>

LedgerNext ==
    \/ \E players_ids \in LedgerAddPlayersInputs : call_add_players(players_ids)
    \/ \E player_id \in PlayerIds, amount \in LedgerAmounts :
          call_add_to_balance(player_id, amount)
    \/ \E player_id \in PlayerIds, amount \in LedgerAmounts :
          call_subtract_from_balance(player_id, amount)

SpecLedger == LedgerInit /\ [][LedgerNext]_vars

\* C17: a direct call of subtract_from_balance, for any player id, registered
\* or not, and any amount >= 0, has exactly two outcomes: the balance is
\* lowered by exactly the amount and stays >= 0, or InsufficientBalanceError is
\* raised and the ledger is as it was.
C17_SubtractTwoOutcomes ==
    last.op = "subtract_from_balance" =>
        LET player_id == last.arg[1]
            amount == last.arg[2]
        IN  \/ /\ last.exc = NoExc
               /\ BalanceIn(players_data, player_id) = BalanceIn(last.before, player_id) - amount
               /\ BalanceIn(players_data, player_id) >= 0
               /\ \A p \in PlayerIds \ {player_id} :
                     BalanceIn(players_data, p) = BalanceIn(last.before, p)
            \/ /\ last.exc = InsufficientBalanceError(BalanceIn(last.before, player_id), amount)
               /\ players_data = last.before

\* C19: for a registered player, a freshly seeded one in particular, and any
\* X >= 0, add_to_balance(X) followed by subtract_from_balance(X) succeeds and
\* leaves every balance, the player's and the others', as it was before the
\* two calls.
C19_AddThenSubtract ==
    ( /\ last.op = "subtract_from_balance"
      /\ last.prev.op = "add_to_balance"
      /\ last.prev.arg = last.arg
      /\ last.arg[1] \in DOMAIN last.prev.before )
    => /\ last.exc = NoExc
       /\ players_data = last.prev.before

\* p1 and p2 have just been seeded at 100; 10 is added to p1 and taken again.
C19_Witness ==
    /\ last.op = "subtract_from_balance"
    /\ last.prev.op = "add_to_balance"
    /\ last.prev.arg = last.arg
    /\ last.arg = <<"p1", 10>>
    /\ last.prev.before = [p \in {"p1", "p2"} |-> 100]
    /\ last.before = [p \in {"p1", "p2"} |-> IF p = "p1" THEN 110 ELSE 100]
    /\ last.exc = NoExc
    /\ players_data = last.prev.before

----------------------------------------------------------------------------
(* place_bet with a storage collaborator whose save can fail *)

\* What open(..., "w") or json.dump raises when the file cannot be written.
OSError == [type |-> "OSError"]

\* save_players_data: it succeeds, or open fails and the file is as it was, or
\* the write fails after open has truncated the file.
SaveOutcomes == {"ok", "open_failed", "write_failed"}

\* The stored mapping after a save of data with the given outcome; a truncated
\* file is loaded as the empty mapping.
save_players_data(stored, data, save_outcome) ==
    IF save_outcome = "ok" THEN data
    ELSE IF save_outcome = "open_failed" THEN stored
    ELSE EmptyData

\* subtract_from_balance with the save that may fail: the debit of line 245
\* has been made when line 246 raises.  attempted: the save was reached.
subtract_from_balance_storage(data, player_id, amount, save_outcome) ==
    LET r == subtract_from_balance(data, player_id, amount)
    IN  IF r.save /\ save_outcome # "ok"
        THEN [exc |-> OSError, data |-> r.data, save |-> FALSE, attempted |-> TRUE]
        ELSE [exc |-> r.exc, data |-> r.data, save |-> r.save, attempted |-> r.save]

\* Faulty variant: the bet is appended although the debit raised on the save.
place_bet_storage_call_append(data, pending, bet, save_outcome) ==
    LET invalid == validate_bet(bet)
    IN  IF invalid # NoExc
        THEN [exc |-> invalid, data |-> data, bets |-> pending, save |-> FALSE,
              attempted |-> FALSE]
        ELSE LET debit == subtract_from_balance_storage(data, bet.player.id, bet.amount,
                                                        save_outcome)
             IN  [exc |-> debit.exc, data |-> debit.data,
                  bets |-> IF debit.attempted THEN Append(pending, bet) ELSE pending,
                  save |-> debit.save, attempted |-> debit.attempted]

\* place_bet on (data, pending) with the save that may fail.
place_bet_storage_call(data, pending, bet, save_outcome) ==
    LET invalid == validate_bet(bet)
    IN  IF invalid # NoExc
        THEN [exc |-> invalid, data |-> data, bets |-> pending, save |-> FALSE,
              attempted |-> FALSE]
        ELSE LET debit == subtract_from_balance_storage(data, bet.player.id, bet.amount,
                                                        save_outcome)
             IN  IF debit.exc # NoExc
                 THEN [exc |-> debit.exc, data |-> debit.data, bets |-> pending,
                       save |-> debit.save, attempted |-> debit.attempted]
                 ELSE [exc |-> NoExc, data |-> debit.data,
                       bets |-> Append(pending, bet), save |-> debit.save,
                       attempted |-> debit.attempted]

place_bet_storage(bet, save_outcome) ==
    LET r == place_bet_storage_call(players_data, bets, bet, save_outcome)
        accepted == Len(r.bets) > Len(bets)
    IN  /\ accepted => Len(settle_count) < MaxBets
        /\ players_data' = r.data
        /\ bets' = r.bets
        /\ saved' = IF r.attempted
                    THEN save_players_data(saved, r.data, save_outcome)
                    ELSE saved
        /\ bet_ids' = IF accepted THEN Append(bet_ids, Len(settle_count) + 1) ELSE bet_ids
        /\ settle_count' = IF accepted THEN Append(settle_count, 0) ELSE settle_count
        /\ last' = [op |-> "place_bet", arg |-> bet, exc |-> r.exc, result |-> NoResult,
                    saves |-> IF r.save THEN 1 ELSE 0, spins |-> 0,
                    save_outcome |-> IF r.attempted THEN save_outcome ELSE "none",
                    attempted |-> r.attempted]
        /\ UNCHANGED <<round_start, rounds, tasks>>

\* The mapping load_players_data returns at construction: two members who
\* have played before.
StorageLoadedData == [p \in PlayerIds |-> IF p = "p1" THEN 20 ELSE 10]

StorageInit ==
    /\ players_data = StorageLoadedData
    /\ bets = <<>>
    /\ saved = players_data
    /\ bet_ids = <<>>
    /\ settle_count = <<>>
    /\ round_start = players_data
    /\ rounds = 0
    /\ tasks = NoTasks
    /\ last = [op |-> "init", arg |-> None, exc |-> NoExc, result |-> NoResult,
               saves |-> 0, spins |-> 0, save_outcome |-> "none", attempted |-> FALSE]

StorageNext ==
    \/ \E players_ids \in AddPlayersInputs : add_players(players_ids)
    \/ \E bet \in BetInputs, save_outcome \in SaveOutcomes :
          place_bet_storage(bet, save_outcome)

SpecStorage == StorageInit /\ [][StorageNext]_vars

\* C16: when the save made during place_bet fails, place_bet raises the
\* storage failure instead of returning, and the bet is not added to the
\* pending list.
C16_SaveFailurePropagates ==
    [][ ( /\ last'.op = "place_bet"
          /\ last'.attempted
          /\ last'.save_outcome # "ok" )
        => /\ last'.exc = OSError
           /\ bets' = bets ]_vars

\* p1 stakes 10; the write of the save fails after the debit.
C16_Witness ==
    /\ last.op = "place_bet"
    /\ last.attempted
    /\ last.save_outcome = "write_failed"
    /\ last.exc = OSError
    /\ last.arg.player.id = "p1"
    /\ last.arg.amount = 10
    /\ players_data["p1"] = 10
    /\ bets = <<>>

----------------------------------------------------------------------------
(* The coroutines of bot.py on one event loop: the two bet commands and
   game_loop.  A coroutine runs until it reaches an await or returns; only
   then does the event loop pick another one.  tasks.running is the coroutine
   that holds the event loop between two of its steps. *)

HandlerIds == 1..MaxHandlers

\* What the members type: the command, its author and its two arguments.
Command(command, author, target, amount) ==
    [command |-> command, author |-> author, target |-> target, amount |-> amount]

Commands ==
    {Command("number", p, Some(n), Some(10)) : p \in PlayerIds, n \in {0, 17}}
    \cup {Command("color", p, Some(c), Some(10)) : p \in PlayerIds, c \in BetColors}

\* The except clauses of the two commands.
CaughtBy(command) ==
    IF command = "number"
    THEN {"InsufficientBalanceError", "WrongNumberError", "MinimalBetError"}
    ELSE {"InsufficientBalanceError", "WrongColorError", "MinimalBetError"}

\* Faulty variant: the guard tests for None instead of truthiness.
MissingParameters_none_only(call) ==
    IsNone(call.target) \/ IsNone(call.amount)

\* if not bet_number or not bet_amount / if not bet_color or not bet_amount
MissingParameters(call) ==
    \/ IF call.command = "number" THEN ~TruthyInt(call.target) ELSE ~TruthyStr(call.target)
    \/ ~TruthyInt(call.amount)

\* Bet(player, None, bet_number, bet_amount) / Bet(player, bet_color, None, bet_amount)
BetOf(call) ==
    IF call.command = "number"
    THEN Bet(Player(call.author), None, call.target, Val(call.amount))
    ELSE Bet(Player(call.author), call.target, None, Val(call.amount))

\* Faulty variant: the event loop may switch coroutines after any step.
Yields_always(pc) == TRUE

\* The positions at which a coroutine gives the event loop back: awaiting
\* ctx.send, or finished.  Between the funds check and the debit there is no
\* await.
Yields(pc) == pc \in {"send", "done", "crashed"}

CanRun(h) == tasks.running \in {None, Some(h)}

IdleHandler == [pc |-> "idle", call |-> None, exc |-> NoExc]

\* The state after on_ready: the members are registered, game_loop sleeps.
HandlersLoadedData == [p \in PlayerIds |-> IF p = "p1" THEN 15 ELSE 100]

HandlersInit ==
    /\ players_data = HandlersLoadedData
    /\ bets = <<>>
    /\ saved = players_data
    /\ bet_ids = <<>>
    /\ settle_count = <<>>
    /\ round_start = players_data
    /\ rounds = 0
    /\ last = [op |-> "init", arg |-> None, exc |-> NoExc, result |-> NoResult,
               saves |-> 0, spins |-> 0]
    /\ tasks = [handlers |-> [h \in HandlerIds |-> IdleHandler],
                running |-> None,
                loop |-> [pc |-> "sleep", results |-> <<>>],
                accepted_in |-> <<>>,
                settled_in |-> <<>>]

\* A member sends a command: the library creates the handler's coroutine.
handler_invoke(h, call) ==
    /\ tasks.handlers[h].pc = "idle"
    /\ tasks.running = None
    /\ tasks' = [tasks EXCEPT !.handlers[h] = [pc |-> "start", call |-> Some(call),
                                               exc |-> NoExc]]
    /\ last' = [op |-> "invoke", arg |-> h, exc |-> NoExc, result |-> NoResult,
                saves |-> 0, spins |-> 0]
    /\ UNCHANGED <<players_data, bets, saved, bet_ids, settle_count, round_start, rounds>>

\* The handler from its first line to the funds check of subtract_from_balance
\* (bot.py 52-58, roulette.py 170-175 and 243-244).
handler_start(h) ==
    LET call == Val(tasks.handlers[h].call)
        bet == BetOf(call)
        invalid == validate_bet(bet)
        exc == IF MissingParameters(call) THEN NoExc
               ELSE IF invalid # NoExc THEN invalid
               ELSE IF ~has_sufficient_funds(players_data, bet.player.id, bet.amount)
               THEN InsufficientBalanceError(
                        get_player_balance(players_data, bet.player.id), bet.amount)
               ELSE NoExc
        pc == IF MissingParameters(call) THEN "send"
              ELSE IF exc = NoExc THEN "debit"
              ELSE IF exc.type \in CaughtBy(call.command) THEN "send"
              ELSE "crashed"
    IN  /\ tasks.handlers[h].pc = "start"
        /\ CanRun(h)
        /\ tasks' = [tasks EXCEPT !.handlers[h].pc = pc,
                                  !.handlers[h].exc = exc,
                                  !.running = IF Yields(pc) THEN None ELSE Some(h)]
        /\ last' = [op |-> "start", arg |-> h, exc |-> exc, result |-> NoResult,
                    saves |-> 0, spins |-> 0]
        /\ UNCHANGED <<players_data, bets, saved, bet_ids, settle_count, round_start,
                       rounds>>

\* The rest of place_bet: the debit, the save and the append
\* (roulette.py 245-246 and 178); the handler then returns.
handler_debit(h) ==
    LET bet == BetOf(Val(tasks.handlers[h].call))
        player_id == bet.player.id
    IN  /\ tasks.handlers[h].pc = "debit"
        /\ CanRun(h)
        /\ IF player_id \in DOMAIN players_data
           THEN /\ players_data' = DictSet(players_data, player_id,
                                           players_data[player_id] - bet.amount)
                /\ saved' = players_data'
                /\ bets' = Append(bets, bet)
                /\ bet_ids' = Append(bet_ids, Len(settle_count) + 1)
                /\ settle_count' = Append(settle_count, 0)
                /\ tasks' = [tasks EXCEPT !.handlers[h].pc = "done",
                                          !.running = None,
                                          !.accepted_in = Append(@, rounds),
                                          !.settled_in = Append(@, 0)]
                /\ last' = [op |-> "debit", arg |-> h, exc |-> NoExc, result |-> NoResult,
                            saves |-> 1, spins |-> 0]
           ELSE /\ tasks' = [tasks EXCEPT !.handlers[h].pc = "crashed",
                                          !.handlers[h].exc = KeyError(player_id),
                                          !.running = None]
                /\ last' = [op |-> "debit", arg |-> h, exc |-> KeyError(player_id),
                            result |-> NoResult, saves |-> 0, spins |-> 0]
                /\ UNCHANGED <<players_data, bets, saved, bet_ids, settle_count>>
        /\ UNCHANGED <<round_start, rounds>>

\* The awaited ctx.send (usage message or error message) completes.
handler_send(h) ==
    /\ tasks.handlers[h].pc = "send"
    /\ tasks.running = None
    /\ tasks' = [tasks EXCEPT !.handlers[h].pc = "done"]
    /\ last' = [op |-> "send", arg |-> h, exc |-> NoExc, result |-> NoResult,
                saves |-> 0, spins |-> 0]
    /\ UNCHANGED <<players_data, bets, saved, bet_ids, settle_count, round_start, rounds>>

\* game_loop wakes from asyncio.sleep: spin_the_wheel and calculate_results,
\* up to the first await of the for loop.
game_loop_spin(winning_number) ==
    LET r == calculate_results_call(players_data, bets, winning_number)
        results == get_results(r.stats)
        settled_ids == {bet_ids[r.order[i]] : i \in 1..Len(r.order)}
    IN  /\ tasks.loop.pc = "sleep"
        /\ tasks.running = None
        /\ rounds < MaxRounds
        /\ players_data' = r.data
        /\ bets' = r.bets
        /\ saved' = IF Len(r.order) > 0 THEN r.data ELSE saved
        /\ bet_ids' = SubSeq(bet_ids, 1, Len(r.bets))
        /\ settle_count' = [i \in 1..Len(settle_count) |->
                              settle_count[i]
                              + Cardinality({j \in 1..Len(r.order) : bet_ids[r.order[j]] = i})]
        /\ round_start' = r.data
        /\ rounds' = rounds + 1
        /\ tasks' = [tasks EXCEPT
                        !.loop = [pc |-> IF r.exc # NoExc THEN "crashed"
                                         ELSE IF results = <<>> THEN "sleep"
                                         ELSE "notify",
                                  results |-> IF r.exc # NoExc THEN <<>> ELSE results],
                        !.settled_in = [i \in 1..Len(@) |->
                                          IF i \in settled_ids THEN rounds + 1 ELSE @[i]]]
        /\ last' = [op |-> "spin", arg |-> winning_number, exc |-> r.exc,
                    result |-> results, saves |-> Len(r.order), spins |-> 1]

\* The three awaited channel.send of one result complete; they read the
\* result and the winning number only.
game_loop_send ==
    /\ tasks.loop.pc = "notify"
    /\ tasks.running = None
    /\ tasks' = [tasks EXCEPT
                    !.loop = [pc |-> IF Len(@.results) = 1 THEN "sleep" ELSE "notify",
                              results |-> Tail(@.results)]]
    /\ last' = [op |-> "notify", arg |-> Head(tasks.loop.results).player.id, exc |-> NoExc,
                result |-> NoResult, saves |-> 0, spins |-> 0]
    /\ UNCHANGED <<players_data, bets, saved, bet_ids, settle_count, round_start, rounds>>

HandlersNext ==
    \/ \E h \in HandlerIds, call \in Commands : handler_invoke(h, call)
    \/ \E h \in HandlerIds : handler_start(h)
    \/ \E h \in HandlerIds : handler_debit(h)
    \/ \E h \in HandlerIds : handler_send(h)
    \/ \E winning_number \in Outcomes : game_loop_spin(winning_number)
    \/ game_loop_send

SpecHandlers == HandlersInit /\ [][HandlersNext]_vars

\* C13: however the command handlers interleave, a handler that has passed
\* the funds check holds the event loop until its debit is made; the stakes a
\* player has pending never exceed the balance the round started with, every
\* balance is the round's starting balance less those stakes (no debit is
\* lost), and no balance is negative.
C13_CheckAndDebitAtomic ==
    /\ \A h \in HandlerIds : tasks.handlers[h].pc = "debit" => tasks.running = Some(h)
    /\ \A p \in PlayerIds :
          /\ BalanceIn(players_data, p) >= 0
          /\ StakeSum(p, bets) <= BalanceIn(round_start, p)
          /\ BalanceIn(players_data, p) = BalanceIn(round_start, p) - StakeSum(p, bets)

\* Two handlers are in flight for p1, who has 15: one bet of 10 is accepted,
\* the other handler is about to report InsufficientBalanceError(5, 10).
C13_Witness ==
    \E h1, h2 \in HandlerIds :
        /\ tasks.handlers[h1].pc = "done"
        /\ tasks.handlers[h1].exc = NoExc
        /\ Val(tasks.handlers[h1].call).author = "p1"
        /\ tasks.handlers[h2].pc = "send"
        /\ tasks.handlers[h2].exc = InsufficientBalanceError(5, 10)
        /\ Val(tasks.handlers[h2].call).author = "p1"
        /\ players_data["p1"] = 5
        /\ StakeSum("p1", bets) = 10

\* C14: with game_loop interleaved with the handlers, no accepted bet is lost
\* or settled twice: a bet is pending exactly as long as it is not settled, it
\* is settled by the first calculate_results after its acceptance and by no
\* other, and while it is pending (accepted after the last settlement began,
\* possibly while game_loop awaits its sends) its stake stays debited.
C14_SettledInNextRoundOnly ==
    /\ Len(bet_ids) = Len(bets)
    /\ \A i \in 1..Len(settle_count) :
          /\ settle_count[i] <= 1
          /\ settle_count[i] = 0 <=> i \in Range(bet_ids)
          /\ settle_count[i] = 1 => tasks.settled_in[i] = tasks.accepted_in[i] + 1
          /\ settle_count[i] = 0 => tasks.accepted_in[i] = rounds /\ tasks.settled_in[i] = 0
    /\ \A p \in PlayerIds :
          BalanceIn(players_data, p) = BalanceIn(round_start, p) - StakeSum(p, bets)

\* A first bet was settled in round 1; while game_loop awaits the sends of
\* that round a second bet is accepted and stays pending, its stake debited.
C14_Witness ==
    /\ tasks.loop.pc = "notify"
    /\ rounds = 1
    /\ Len(settle_count) = 2
    /\ settle_count[1] = 1
    /\ tasks.settled_in[1] = 1
    /\ bet_ids = <<2>>
    /\ tasks.accepted_in[2] = 1
    /\ BalanceIn(players_data, bets[1].player.id)
          = BalanceIn(round_start, bets[1].player.id) - bets[1].amount

----------------------------------------------------------------------------
(* game_loop running for ever, with result messages that can fail.  The
   scheduling is fair where the event loop makes it so: a sleeping game_loop
   is woken, an awaited send completes one way or another, and a handler
   that has passed the funds check runs on to its debit. *)

\* The lookup and the sends of one result: they succeed, or bot.get_channel
\* returns None, or channel.send raises.
SendOutcomes == {"sent", "no_channel", "send_failed"}

\* What escapes game_loop for each outcome; game_loop has no try.
HTTPException == [type |-> "HTTPException"]
send_result(send_outcome) ==
    IF send_outcome = "sent" THEN NoExc
    ELSE IF send_outcome = "no_channel" THEN AttributeError
    ELSE HTTPException

\* game_loop_spin without the bound on the rounds: the history counter stops
\* at MaxRounds while the loop goes on.
loop_spin(winning_number) ==
    LET r == calculate_results_call(players_data, bets, winning_number)
        results == get_results(r.stats)
    IN  /\ tasks.loop.pc = "sleep"
        /\ tasks.running = None
        /\ players_data' = r.data
        /\ bets' = r.bets
        /\ saved' = IF Len(r.order) > 0 THEN r.data ELSE saved
        /\ bet_ids' = SubSeq(bet_ids, 1, Len(r.bets))
        /\ settle_count' = [i \in 1..Len(settle_count) |->
                              settle_count[i]
                              + Cardinality({j \in 1..Len(r.order) : bet_ids[r.order[j]] = i})]
        /\ round_start' = r.data
        /\ rounds' = IF rounds < MaxRounds THEN rounds + 1 ELSE rounds
        /\ tasks' = [tasks EXCEPT
                        !.loop = [pc |-> IF r.exc # NoExc THEN "crashed"
                                         ELSE IF results = <<>> THEN "sleep"
                                         ELSE "notify",
                                  results |-> IF r.exc # NoExc THEN <<>> ELSE results]]
        /\ last' = [op |-> "spin", arg |-> winning_number, exc |-> r.exc,
                    result |-> NoResult, saves |-> Len(r.order), spins |-> 1]

\* The lookup and the three sends of one result; an exception ends game_loop.
loop_send(send_outcome) ==
    LET exc == send_result(send_outcome)
    IN  /\ tasks.loop.pc = "notify"
        /\ tasks.running = None
        /\ tasks' = [tasks EXCEPT
                        !.loop = IF exc # NoExc
                                 THEN [pc |-> "crashed", results |-> <<>>]
                                 ELSE [pc |-> IF Len(@.results) = 1 THEN "sleep"
                                              ELSE "notify",
                                       results |-> Tail(@.results)]]
        /\ last' = [op |-> "notify", arg |-> Head(tasks.loop.results).player.id,
                    exc |-> exc, result |-> NoResult, saves |-> 0, spins |-> 0]
        /\ UNCHANGED <<players_data, bets, saved, bet_ids, settle_count, round_start,
                       rounds>>

LoopNext ==
    \/ \E h \in HandlerIds, call \in Commands : handler_invoke(h, call)
    \/ \E h \in HandlerIds : handler_start(h)
    \/ \E h \in HandlerIds : handler_debit(h)
    \/ \E h \in HandlerIds : handler_send(h)
    \/ \E winning_number \in Outcomes : loop_spin(winning_number)
    \/ \E send_outcome \in SendOutcomes : loop_send(send_outcome)

SpecLoop ==
    /\ HandlersInit
    /\ [][LoopNext]_vars
    /\ WF_vars(\E winning_number \in Outcomes : loop_spin(winning_number))
    /\ WF_vars(\E send_outcome \in SendOutcomes : loop_send(send_outcome))
    /\ WF_vars(\E h \in HandlerIds : handler_debit(h))

\* C21: game_loop goes on closing rounds in every execution, also when the
\* lookup of a channel or the send of a result fails, so that with a fair
\* round timer every accepted bet is eventually settled.
C21_EveryBetEventuallySettled ==
    \A i \in HandlerIds :
        (Len(settle_count) >= i) ~> (Len(settle_count) >= i /\ settle_count[i] >= 1)

\* C22: every pending bet has a legal target, an amount >= 1, an owner with
\* an entry in the ledger and a stake that is debited from the owner's balance;
\* hence calculate_results with a winning number of the wheel raises nothing,
\* credits prizes >= 0 only and adds no entry to the ledger.
C22_PendingBetsWellFormed ==
    /\ \A i \in 1..Len(bets) :
          /\ LegalTarget(bets[i])
          /\ bets[i].amount >= 1
          /\ bets[i].player.id \in DOMAIN players_data
    /\ \A p \in PlayerIds :
          BalanceIn(players_data, p) = BalanceIn(round_start, p) - StakeSum(p, bets)
    /\ last.op = "calculate_results" =>
          /\ last.exc = NoExc
          /\ \A i \in 1..Len(last.result) : last.result[i].prize >= 0
          /\ \A p \in PlayerIds :
                BalanceIn(players_data, p) >= BalanceIn(last.start, p) - StakeSum(p, last.settled)
          /\ DOMAIN players_data = DOMAIN last.start

\* A round with a number bet and a color bet pending is settled on 17.
C22_Witness ==
    /\ last.op = "calculate_results"
    /\ last.arg = 17
    /\ \E i, j \in 1..Len(last.settled) :
          IsNumberBet(last.settled[i]) /\ IsColorBet(last.settled[j])
    /\ last.exc = NoExc
    /\ bets = <<>>

\* C23: whenever place_bet raises, for whatever reason, a failing save
\* included, the balances in memory and the pending list are what they were
\* before the call: no stake is debited without a pending bet.
C23_PlaceBetAllOrNothing ==
    [][ (last'.op = "place_bet" /\ last'.exc # NoExc)
        => /\ players_data' = players_data
           /\ bets' = bets ]_vars

----------------------------------------------------------------------------
(* One bet command from its first line to its last, on any parsed arguments *)

\* The arguments after the library has parsed them: an omitted one is None.
CommandNumbers == {None, Some(0), Some(17), Some(37), Some(-1)}
CommandColors == {None, Some(""), Some("Red"), Some("green")}
CommandAmounts == {None, Some(0), Some(10), Some(-5)}
CommandInputs ==
    {Command("number", p, n, a) : p \in PlayerIds, n \in CommandNumbers, a \in CommandAmounts}
    \cup {Command("color", p, c, a) : p \in PlayerIds, c \in CommandColors, a \in CommandAmounts}

\* The ledgers the command meets: nobody registered, p1 with 5, both seeded.
CommandLedgers == LoadedData \cup {[p \in PlayerIds |-> STARTING_BALANCE]}

\* The whole handler.  called: place_bet was called; escaped: an exception
\* of place_bet that no except clause of the handler names; reply: what the
\* handler sends ("usage", "error" or nothing).
run_command(data, pending, call) ==
    IF MissingParameters(call)
    THEN [called |-> FALSE, exc |-> NoExc, escaped |-> FALSE, reply |-> "usage",
          data |-> data, bets |-> pending, save |-> FALSE]
    ELSE LET r == place_bet_call(data, pending, BetOf(call))
             caught == r.exc # NoExc /\ r.exc.type \in CaughtBy(call.command)
         IN  [called |-> TRUE, exc |-> r.exc,
              escaped |-> r.exc # NoExc /\ ~caught,
              reply |-> IF caught THEN "error" ELSE "none",
              data |-> r.data, bets |-> r.bets, save |-> r.save]

\* The command and the ledger are drawn here; the one action runs the handler.
CommandInit ==
    /\ players_data \in CommandLedgers
    /\ bets = <<>>
    /\ saved = players_data
    /\ bet_ids = <<>>
    /\ settle_count = <<>>
    /\ round_start = players_data
    /\ rounds = 0
    /\ tasks = NoTasks
    /\ \E call \in CommandInputs :
          last = [op |-> "input", arg |-> call, exc |-> NoExc, result |-> NoResult,
                  saves |-> 0, spins |-> 0, called |-> FALSE, escaped |-> FALSE,
                  reply |-> "none"]

apply_command ==
    LET r == run_command(players_data, bets, last.arg)
        accepted == Len(r.bets) > Len(bets)
    IN  /\ last.op = "input"
        /\ players_data' = r.data
        /\ bets' = r.bets
        /\ saved' = IF r.save THEN r.data ELSE saved
        /\ bet_ids' = IF accepted THEN Append(bet_ids, Len(settle_count) + 1) ELSE bet_ids
        /\ settle_count' = IF accepted THEN Append(settle_count, 0) ELSE settle_count
        /\ last' = [last EXCEPT !.op = "command", !.exc = r.exc,
                                !.saves = IF r.save THEN 1 ELSE 0,
                                !.called = r.called, !.escaped = r.escaped,
                                !.reply = r.reply]
        /\ UNCHANGED <<round_start, rounds, tasks>>

CommandNext == apply_command

SpecCommand == CommandInit /\ [][CommandNext]_vars

\* Number 0, a missing or empty target, a missing or zero amount.
Unhandled(call) ==
    \/ IsNone(call.target)
    \/ call.command = "number" /\ call.target = Some(0)
    \/ call.command = "color" /\ call.target = Some("")
    \/ IsNone(call.amount)
    \/ call.amount = Some(0)

\* C24: no exception of the engine escapes a bet command run on parsed
\* arguments: what place_bet raises for the bet the handler builds is of a
\* kind the handler catches and reports; and number 0, a missing target and a
\* missing or zero amount are answered with the usage message, place_bet not
\* being called.
C24_NoExceptionEscapes ==
    last.op = "command" =>
        /\ ~last.escaped
        /\ last.exc # NoExc =>
              /\ last.exc.type \in {"InsufficientBalanceError", "MinimalBetError",
                                    IF last.arg.command = "number" THEN "WrongNumberError"
                                    ELSE "WrongColorError"}
              /\ last.reply = "error"
              /\ bets = <<>>
        /\ Unhandled(last.arg) =>
              /\ ~last.called
              /\ last.reply = "usage"
              /\ bets = <<>>
              /\ players_data = saved
        /\ ~Unhandled(last.arg) => last.called

\* The number command on number 0 with amount 10: usage message, no call.
C24_Witness ==
    /\ last.op = "command"
    /\ last.arg.command = "number"
    /\ last.arg.target = Some(0)
    /\ last.arg.amount = Some(10)
    /\ ~last.called
    /\ last.reply = "usage"

----------------------------------------------------------------------------
(* The engine with restarts of the process *)

\* json.dump followed by json.load on a mapping from str to int gives the
\* mapping back.
load_players_data(stored) == stored

\* The process is restarted: a new RouletteGame starts with an empty pending
\* list and the mapping read from the file.
restart ==
    /\ players_data' = load_players_data(saved)
    /\ bets' = <<>>
    /\ bet_ids' = <<>>
    /\ round_start' = players_data'
    /\ last' = [op |-> "restart", arg |-> None, exc |-> NoExc, result |-> NoResult,
                saves |-> 0, spins |-> 0]
    /\ UNCHANGED <<saved, settle_count, rounds, tasks>>

RestartNext ==
    \/ Next
    \/ restart

SpecRestart == Init /\ [][RestartNext]_vars

\* C25: a restart loses no money: of the stakes debited before it, each is
\* still pending after it or is back in its owner's balance.
C25_RestartLosesNoMoney ==
    [][ last'.op = "restart" =>
          \A p \in PlayerIds :
              BalanceIn(players_data', p) + StakeSum(p, bets')
                  = BalanceIn(players_data, p) + StakeSum(p, bets) ]_vars

====
